---- MODULE Spec2Model ----
(***************************************************************************)
(* Cricbuzz LiveStats: the data access layer (utils/database_manager.py)   *)
(* over its SQLite file, and the query catalog (utils/sql_queries.py).     *)
(*                                                                         *)
(* The store is the committed content of the database file: for each of    *)
(* the four tables whether it exists, its rows keyed by id, and its        *)
(* sqlite_sequence entry.  Every public operation of DatabaseManager is    *)
(* one action.  The storage engine may fail at any call an operation makes *)
(* (sqlite3.connect, execute, executemany, commit): the action draws the   *)
(* index of the failing call, 0 for none.  Statements that change rows run *)
(* in the implicit transaction Python's sqlite3 opens and take effect at   *)
(* commit only; CREATE TABLE and DROP TABLE run outside a transaction and  *)
(* take effect one by one.                                                 *)
(***************************************************************************)
EXTENDS Integers, Sequences, FiniteSets, TLC

VARIABLES
  store,        \* the committed content of the database file
  call,         \* the last call made on the layer, with what it returned
  constructed,  \* some DatabaseManager() has been constructed without raising
  changes,      \* calls that changed the store since it was last as seeded
  history,      \* the players ids insert_record returned and delete_record
                \* then deleted: gone until written again, ever for good;
                \* top is the largest id a players row was inserted with
                \* since the table was last dropped
  sessions      \* two callers at work at the same time, each with the call
                \* it is in and how far that call has got

vars == << store, call, constructed, changes, history, sessions >>

----------------------------------------------------------------------------
(* Bounds of the model *)

\* calls that may change the store before it is as seeded again
MaxChanges == 1

\* the same, where only the players table is worked on
MaxPlayerChanges == 3

\* calls the two callers at the same time may start
MaxConcurrentCalls == 3

----------------------------------------------------------------------------
(* Values: what Python binds to a "?" and what SQLite stores in a column.  *)
(* A REAL is kept in hundredths (52.5 is RealVal(5250)): every REAL of the *)
(* sample data and of the forms has at most two decimals.                  *)

Null == [k |-> "null", n |-> 0, s |-> ""]

IntVal(i) == [k |-> "integer", n |-> i, s |-> ""]

RealVal(h) == [k |-> "real", n |-> h, s |-> ""]

\* a text that is not a numeral
TextVal(t) == [k |-> "text", n |-> 0, s |-> t]

\* the text of the digits of i >= 0, kept with the integer it reads as
NumeralText(i) == [k |-> "text", n |-> i, s |-> ToString(i)]

Max(a, b) == IF a >= b THEN a ELSE b

\* v is a text that reads as an integer
IsIntegerText(v) == v.k = "text" /\ v.s = ToString(v.n)

\* the text SQLite renders for a REAL: 52.5, 5.0, 108.97, 2.05
RealText(h) ==
  LET whole == h \div 100
      frac == h % 100
  IN ToString(whole) \o "." \o
       (IF frac % 10 = 0 THEN ToString(frac \div 10)
        ELSE IF frac < 10 THEN "0" \o ToString(frac)
        ELSE ToString(frac))

\* the affinity SQLite derives from a column's declared type
Affinity(decl) ==
  CASE decl = "INTEGER" -> "INTEGER"
    [] decl = "TEXT" -> "TEXT"
    [] decl = "REAL" -> "REAL"
    [] OTHER -> "NUMERIC"

\* the value a column of affinity aff stores for the bound value v
ApplyAffinity(aff, v) ==
  CASE aff = "TEXT" ->
         IF v.k = "integer" THEN NumeralText(v.n)
         ELSE IF v.k = "real" THEN TextVal(RealText(v.n))
         ELSE v
    [] aff = "REAL" ->
         IF IsIntegerText(v) THEN RealVal(100 * v.n)
         ELSE IF v.k = "integer" THEN RealVal(100 * v.n)
         ELSE v
    [] OTHER ->
         IF IsIntegerText(v) THEN IntVal(v.n)
         ELSE IF v.k = "real" /\ v.n % 100 = 0 THEN IntVal(v.n \div 100)
         ELSE v

----------------------------------------------------------------------------
(* The schema init_database creates.  id INTEGER PRIMARY KEY AUTOINCREMENT *)
(* is the key of a table's rows and is not listed among its columns.  Of   *)
(* the columns of each table the model keeps one or two of every declared  *)
(* type (TEXT, INTEGER, REAL, DATE), with the only NOT NULL column (name   *)
(* of players), the two references of player_performances and columns with *)
(* and without a DEFAULT; the layer names no column itself and treats      *)
(* the others in the same way.                                             *)

Col(name, decl, notnull, dflt) ==
  [name |-> name, decl |-> decl, notnull |-> notnull, dflt |-> dflt]

PlayersSchema ==
  << Col("name", "TEXT", TRUE, Null),
     Col("country", "TEXT", FALSE, Null),
     Col("total_runs", "INTEGER", FALSE, IntVal(0)),
     Col("batting_average", "REAL", FALSE, RealVal(0)) >>

MatchesSchema ==
  << Col("match_description", "TEXT", FALSE, Null),
     Col("venue_capacity", "INTEGER", FALSE, Null),
     Col("match_date", "DATE", FALSE, Null),
     Col("winning_team", "TEXT", FALSE, Null) >>

SeriesSchema ==
  << Col("series_name", "TEXT", FALSE, Null),
     Col("start_date", "DATE", FALSE, Null),
     Col("total_matches", "INTEGER", FALSE, Null) >>

PerformancesSchema ==
  << Col("player_id", "INTEGER", FALSE, Null),
     Col("match_id", "INTEGER", FALSE, Null),
     Col("runs_scored", "INTEGER", FALSE, IntVal(0)),
     Col("strike_rate", "REAL", FALSE, RealVal(0)) >>

Tables == {"players", "matches", "series", "player_performances"}

Schema(t) ==
  CASE t = "players" -> PlayersSchema
    [] t = "matches" -> MatchesSchema
    [] t = "series" -> SeriesSchema
    [] t = "player_performances" -> PerformancesSchema

\* the columns of every table by name
Columns ==
  [t \in Tables |->
     [c \in {Schema(t)[i].name : i \in 1..Len(Schema(t))} |->
        Schema(t)[CHOOSE i \in 1..Len(Schema(t)) : Schema(t)[i].name = c]]]

ColumnNames(t) == DOMAIN Columns[t]

ColumnOf(t, c) == Columns[t][c]

\* the order of the CREATE TABLE IF NOT EXISTS statements of init_database
CreateOrder == << "players", "matches", "series", "player_performances" >>

\* reset_database dropping the tables in the order they were created in
DropOrderAsCreated == << "players", "matches", "series", "player_performances" >>

\* the order of the DROP TABLE IF EXISTS statements of reset_database
DropOrder == << "player_performances", "matches", "series", "players" >>

----------------------------------------------------------------------------
(* The sample data of insert_sample_data, as Python binds it: an int is an *)
(* IntVal, a float a RealVal, a str a TextVal.                             *)

\* sample_players, database_manager.py lines 141-157: of each tuple the values of
\* name, country, total_runs, batting_average
SamplePlayers ==
  << << TextVal("Virat Kohli"), TextVal("India"), IntVal(12000), RealVal(5250) >>,
     << TextVal("Rohit Sharma"), TextVal("India"), IntVal(9500), RealVal(4820) >>,
     << TextVal("MS Dhoni"), TextVal("India"), IntVal(10773), RealVal(5057) >>,
     << TextVal("Ravindra Jadeja"), TextVal("India"), IntVal(2635), RealVal(3526) >>,
     << TextVal("Jasprit Bumrah"), TextVal("India"), IntVal(85), RealVal(850) >>,
     << TextVal("Steve Smith"), TextVal("Australia"), IntVal(8010), RealVal(6161) >>,
     << TextVal("Joe Root"), TextVal("England"), IntVal(9500), RealVal(5026) >>,
     << TextVal("Kane Williamson"), TextVal("New Zealand"), IntVal(7115), RealVal(5431) >>,
     << TextVal("Babar Azam"), TextVal("Pakistan"), IntVal(4442), RealVal(4537) >>,
     << TextVal("Shaheen Afridi"), TextVal("Pakistan"), IntVal(123), RealVal(1230) >>,
     << TextVal("David Warner"), TextVal("Australia"), IntVal(5455), RealVal(4545) >>,
     << TextVal("Pat Cummins"), TextVal("Australia"), IntVal(945), RealVal(1890) >>,
     << TextVal("Ben Stokes"), TextVal("England"), IntVal(4890), RealVal(3600) >>,
     << TextVal("Trent Boult"), TextVal("New Zealand"), IntVal(234), RealVal(1360) >>,
     << TextVal("Quinton de Kock"), TextVal("South Africa"), IntVal(5440), RealVal(4400) >> >>

\* sample_matches, database_manager.py lines 167-176: of each tuple the values of
\* match_description, venue_capacity, match_date, winning_team
SampleMatches ==
  << << TextVal("India vs Australia, 1st ODI"), IntVal(33000), TextVal("2024-01-15"), TextVal("India") >>,
     << TextVal("England vs New Zealand, T20I"), IntVal(28000), TextVal("2024-02-20"), TextVal("New Zealand") >>,
     << TextVal("Pakistan vs South Africa, Test"), IntVal(34000), TextVal("2024-03-10"), TextVal("Pakistan") >>,
     << TextVal("India vs England, 2nd ODI"), IntVal(66000), TextVal("2024-01-28"), TextVal("England") >>,
     << TextVal("Australia vs West Indies, T20I"), IntVal(100000), TextVal("2024-02-15"), TextVal("Australia") >>,
     << TextVal("India vs Pakistan, T20I"), IntVal(25000), TextVal("2024-03-25"), TextVal("India") >>,
     << TextVal("England vs Australia, Test"), IntVal(27500), TextVal("2024-04-10"), TextVal("Australia") >>,
     << TextVal("New Zealand vs South Africa, ODI"), IntVal(42000), TextVal("2024-04-20"), TextVal("New Zealand") >> >>

\* sample_series, database_manager.py lines 186-192: of each tuple the values of
\* series_name, start_date, total_matches
SampleSeries ==
  << << TextVal("India vs Australia ODI Series 2024"), TextVal("2024-01-15"), IntVal(5) >>,
     << TextVal("England vs New Zealand T20 Series"), TextVal("2024-02-18"), IntVal(3) >>,
     << TextVal("Pakistan vs South Africa Test Series"), TextVal("2024-03-08"), IntVal(2) >>,
     << TextVal("ICC T20 World Cup 2024"), TextVal("2024-06-01"), IntVal(55) >>,
     << TextVal("Asia Cup 2024"), TextVal("2024-08-15"), IntVal(13) >> >>

\* sample_performances, database_manager.py lines 200-211: of each tuple the values of
\* player_id, match_id, runs_scored, strike_rate
SamplePerformances ==
  << << IntVal(1), IntVal(1), IntVal(85), RealVal(10897) >>,
     << IntVal(2), IntVal(1), IntVal(124), RealVal(10783) >>,
     << IntVal(5), IntVal(1), IntVal(8), RealVal(5333) >>,
     << IntVal(1), IntVal(2), IntVal(45), RealVal(14063) >>,
     << IntVal(7), IntVal(2), IntVal(67), RealVal(7528) >>,
     << IntVal(13), IntVal(2), IntVal(23), RealVal(12778) >>,
     << IntVal(6), IntVal(3), IntVal(178), RealVal(7607) >>,
     << IntVal(8), IntVal(4), IntVal(89), RealVal(9082) >>,
     << IntVal(9), IntVal(5), IntVal(78), RealVal(11642) >>,
     << IntVal(10), IntVal(5), IntVal(12), RealVal(15000) >> >>

\* the column lists of the four executemany INSERT statements, the columns
\* kept
SamplePlayersColumns == << "name", "country", "total_runs", "batting_average" >>

SampleMatchesColumns ==
  << "match_description", "venue_capacity", "match_date", "winning_team" >>

SampleSeriesColumns == << "series_name", "start_date", "total_matches" >>

SamplePerformancesColumns == << "player_id", "match_id", "runs_scored", "strike_rate" >>

----------------------------------------------------------------------------
(* The store and the SQL statements the layer builds *)

NoRows == [i \in {} |-> Null]

\* a table that does not exist: no rows, no sqlite_sequence entry
NoTable == [exists |-> FALSE, rows |-> NoRows, seq |-> 0]

\* a table CREATE TABLE has just made
EmptyTable == [exists |-> TRUE, rows |-> NoRows, seq |-> 0]

\* the database file sqlite3.connect creates: no table yet
NoFile == [t \in Tables |-> NoTable]

TableExists(s, t) == t \in Tables /\ s[t].exists

RowCount(s, t) == Cardinality(DOMAIN s[t].rows)

SetMax(S) == IF S = {} THEN 0 ELSE CHOOSE x \in S : \A y \in S : y <= x

\* INTEGER PRIMARY KEY without AUTOINCREMENT: one more than the largest id
\* the table holds now
NextRowIdOfRowsHeld(tb) == SetMax(DOMAIN tb.rows) + 1

\* AUTOINCREMENT: one more than the largest id the table has ever held
NextRowId(tb) == Max(tb.seq, SetMax(DOMAIN tb.rows)) + 1

\* a statement that raised: nothing is changed
Raised(s) == [ok |-> FALSE, store |-> s, n |-> 0]

\* the row a statement writes: the bound values under each column's
\* affinity, and base[c] for the columns the statement does not name
WrittenRow(t, data, base) ==
  [c \in ColumnNames(t) |->
     IF c \in DOMAIN data
     THEN ApplyAffinity(Affinity(ColumnOf(t, c).decl), data[c])
     ELSE base[c]]

DefaultRow(t) == [c \in ColumnNames(t) |-> ColumnOf(t, c).dflt]

NotNullHolds(t, row) ==
  \A c \in ColumnNames(t) : ColumnOf(t, c).notnull => row[c] # Null

\* INSERT INTO t (keys of data) VALUES (?, ...) with cursor.rowcount, the
\* number of rows inserted, taken for the new id
InsertStatementRowCount(s, t, data) ==
  IF ~TableExists(s, t) THEN Raised(s)
  ELSE
    LET newid == NextRowId(s[t])
        row == WrittenRow(t, data, DefaultRow(t))
    IN IF DOMAIN data = {} \/ ~(DOMAIN data \subseteq ColumnNames(t))
          \/ ~NotNullHolds(t, row)
       THEN Raised(s)
       ELSE [ok |-> TRUE,
             store |-> [s EXCEPT ![t].rows =
                                   [i \in DOMAIN @ \cup {newid} |->
                                      IF i = newid THEN row ELSE @[i]],
                                 ![t].seq = Max(@, newid)],
             n |-> 1]

\* INSERT INTO t (keys of data) VALUES (?, ...): n is cursor.lastrowid
InsertStatement(s, t, data) ==
  IF ~TableExists(s, t) THEN Raised(s)
  ELSE
    LET keys == DOMAIN data
        idv == IF "id" \in keys THEN ApplyAffinity("INTEGER", data["id"]) ELSE Null
        newid == IF idv.k = "integer" THEN idv.n ELSE NextRowId(s[t])
        row == WrittenRow(t, data, DefaultRow(t))
        ok == /\ keys # {}
              /\ keys \subseteq ColumnNames(t) \cup {"id"}
              /\ idv.k \in {"null", "integer"}
              /\ newid \notin DOMAIN s[t].rows
              /\ NotNullHolds(t, row)
    IN IF ~ok THEN Raised(s)
       ELSE [ok |-> TRUE,
             store |-> [s EXCEPT ![t].rows =
                                   [i \in DOMAIN @ \cup {newid} |->
                                      IF i = newid THEN row ELSE @[i]],
                                 ![t].seq = Max(@, newid)],
             n |-> newid]

\* UPDATE t SET key = ?, ... without the WHERE clause: every row is set
UpdateStatementEveryRow(s, t, rid, data) ==
  IF ~TableExists(s, t) THEN Raised(s)
  ELSE IF DOMAIN data = {} \/ ~(DOMAIN data \subseteq ColumnNames(t)) THEN Raised(s)
  ELSE IF \E i \in DOMAIN s[t].rows : ~NotNullHolds(t, WrittenRow(t, data, s[t].rows[i]))
  THEN Raised(s)
  ELSE [ok |-> TRUE,
        store |-> [s EXCEPT ![t].rows =
                              [i \in DOMAIN @ |-> WrittenRow(t, data, @[i])]],
        n |-> RowCount(s, t)]

\* UPDATE t SET ... WHERE id = ? setting the first key of data only, as one
\* of a series of statements, one per key
UpdateStatementOneKey(s, t, rid, data) ==
  IF ~TableExists(s, t) THEN Raised(s)
  ELSE IF DOMAIN data = {} \/ ~(DOMAIN data \subseteq ColumnNames(t)) THEN Raised(s)
  ELSE IF rid \notin DOMAIN s[t].rows THEN [ok |-> TRUE, store |-> s, n |-> 0]
  ELSE [ok |-> TRUE,
        store |-> [s EXCEPT ![t].rows[rid] =
                     LET c == CHOOSE k \in DOMAIN data : TRUE
                     IN [@ EXCEPT ![c] = ApplyAffinity(Affinity(ColumnOf(t, c).decl),
                                                       data[c])]],
        n |-> 1]

\* UPDATE t SET key = ?, ... WHERE id = ? counting the rows whose content
\* the statement changed, none for a row that already held the values
UpdateStatementRowsChanged(s, t, rid, data) ==
  IF ~TableExists(s, t) THEN Raised(s)
  ELSE
    LET keys == DOMAIN data
        rows == s[t].rows
        idv == IF "id" \in keys THEN ApplyAffinity("INTEGER", data["id"]) ELSE IntVal(rid)
        row == WrittenRow(t, data, rows[rid])
    IN IF keys = {} \/ ~(keys \subseteq ColumnNames(t) \cup {"id"}) THEN Raised(s)
       ELSE IF rid \notin DOMAIN rows THEN [ok |-> TRUE, store |-> s, n |-> 0]
       ELSE IF \/ idv.k # "integer"
               \/ (idv.n # rid /\ idv.n \in DOMAIN rows)
               \/ ~NotNullHolds(t, row)
            THEN Raised(s)
       ELSE [ok |-> TRUE,
             store |-> [s EXCEPT ![t].rows =
                                   [i \in (DOMAIN @ \ {rid}) \cup {idv.n} |->
                                      IF i = idv.n THEN row ELSE @[i]]],
             n |-> IF idv.n = rid /\ row = rows[rid] THEN 0 ELSE 1]

\* UPDATE t SET key = ?, ... WHERE id = ?: n is cursor.rowcount
UpdateStatement(s, t, rid, data) ==
  IF ~TableExists(s, t) THEN Raised(s)
  ELSE
    LET keys == DOMAIN data
        rows == s[t].rows
        idv == IF "id" \in keys THEN ApplyAffinity("INTEGER", data["id"]) ELSE IntVal(rid)
        row == WrittenRow(t, data, rows[rid])
    IN IF keys = {} \/ ~(keys \subseteq ColumnNames(t) \cup {"id"}) THEN Raised(s)
       ELSE IF rid \notin DOMAIN rows THEN [ok |-> TRUE, store |-> s, n |-> 0]
       ELSE IF \/ idv.k # "integer"
               \/ (idv.n # rid /\ idv.n \in DOMAIN rows)
               \/ ~NotNullHolds(t, row)
            THEN Raised(s)
       ELSE [ok |-> TRUE,
             store |-> [s EXCEPT ![t].rows =
                                   [i \in (DOMAIN @ \ {rid}) \cup {idv.n} |->
                                      IF i = idv.n THEN row ELSE @[i]]],
             n |-> 1]

\* DELETE FROM t WHERE id = ?: n is cursor.rowcount
DeleteStatement(s, t, rid) ==
  IF ~TableExists(s, t) THEN Raised(s)
  ELSE [ok |-> TRUE,
        store |-> [s EXCEPT ![t].rows = [i \in DOMAIN @ \ {rid} |-> @[i]]],
        n |-> IF rid \in DOMAIN s[t].rows THEN 1 ELSE 0]

\* DELETE FROM t, without the WHERE clause
DeleteWhereEveryRow(s, t, c, rid) ==
  IF ~TableExists(s, t) THEN Raised(s)
  ELSE [ok |-> TRUE, store |-> [s EXCEPT ![t].rows = NoRows], n |-> RowCount(s, t)]

\* DELETE FROM t WHERE c = ?, for the integer rid
DeleteWhere(s, t, c, rid) ==
  IF ~TableExists(s, t) THEN Raised(s)
  ELSE
    LET keep == {i \in DOMAIN s[t].rows : s[t].rows[i][c] # IntVal(rid)}
    IN [ok |-> TRUE,
        store |-> [s EXCEPT ![t].rows = [i \in keep |-> @[i]]],
        n |-> RowCount(s, t) - Cardinality(keep)]

\* the value of the only element of S
TheOne(S) == CHOOSE x \in S : TRUE

\* the field map executemany binds for one tuple of sample data
Bind(cols, tuple) ==
  [c \in {cols[j] : j \in 1..Len(cols)} |->
     tuple[CHOOSE j \in 1..Len(cols) : cols[j] = c]]

\* the column list and the tuples of each executemany of insert_sample_data
SampleData ==
  [t \in Tables |->
     CASE t = "players" -> [cols |-> SamplePlayersColumns, tuples |-> SamplePlayers]
       [] t = "matches" -> [cols |-> SampleMatchesColumns, tuples |-> SampleMatches]
       [] t = "series" -> [cols |-> SampleSeriesColumns, tuples |-> SampleSeries]
       [] t = "player_performances" ->
            [cols |-> SamplePerformancesColumns, tuples |-> SamplePerformances]]

\* the rows the tuples of sample data are written as
SampleRows ==
  [t \in Tables |->
     [i \in 1..Len(SampleData[t].tuples) |->
        WrittenRow(t, Bind(SampleData[t].cols, SampleData[t].tuples[i]), DefaultRow(t))]]

\* cursor.executemany(INSERT INTO t (cols) VALUES (?, ...), tuples): no tuple
\* names an id, each row takes the next AUTOINCREMENT id
ExecuteMany(s, t) ==
  IF ~TableExists(s, t) THEN Raised(s)
  ELSE
    LET rows == SampleRows[t]
        base == NextRowId(s[t]) - 1
        new == {base + i : i \in 1..Len(rows)}
    IN IF \E i \in 1..Len(rows) : ~NotNullHolds(t, rows[i]) THEN Raised(s)
       ELSE [ok |-> TRUE,
             store |-> [s EXCEPT ![t].rows =
                                   [i \in DOMAIN @ \cup new |->
                                      IF i \in new THEN rows[i - base] ELSE @[i]],
                                 ![t].seq = Max(@, base + Len(rows))],
             n |-> Len(rows)]

\* a row as a SELECT * returns it, the id included
RowWithId(t, rid, row) ==
  [c \in ColumnNames(t) \cup {"id"} |-> IF c = "id" THEN IntVal(rid) ELSE row[c]]

\* the queries the pages and the spec pass to execute_query
SelectById(t, rid) == [kind |-> "select_by_id", table |-> t, id |-> rid, data |-> NoRows]

SelectCount(t) == [kind |-> "count", table |-> t, id |-> 0, data |-> NoRows]

MalformedQuery == [kind |-> "malformed", table |-> "", id |-> 0, data |-> NoRows]

\* the data-modifying statements: INSERT INTO t (keys of data) VALUES (...),
\* UPDATE t SET key = ..., ... WHERE id = rid, DELETE FROM t WHERE id = rid
InsertQuery(t, data) == [kind |-> "insert", table |-> t, id |-> 0, data |-> data]

UpdateQuery(t, rid, data) == [kind |-> "update", table |-> t, id |-> rid, data |-> data]

DeleteQuery(t, rid) == [kind |-> "delete", table |-> t, id |-> rid, data |-> NoRows]

WriteKinds == {"insert", "update", "delete"}

\* cursor.execute of a data-modifying statement on a connection
WriteStatement(s, q) ==
  IF q.kind = "insert" THEN InsertStatement(s, q.table, q.data)
  ELSE IF q.kind = "update" THEN UpdateStatement(s, q.table, q.id, q.data)
  ELSE DeleteStatement(s, q.table, q.id)

\* pd.read_sql_query(query, conn): the rows, or the call raises; conn is
\* the content of the file as the connection sees it afterwards.  A
\* data-modifying statement is executed in the connection's transaction,
\* then the frame cannot be built from a cursor without a description, and
\* the call raises.
ReadSqlQuery(s, q) ==
  IF q.kind = "malformed" \/ ~TableExists(s, q.table)
  THEN [ok |-> FALSE, rows |-> << >>, conn |-> s]
  ELSE IF q.kind \in WriteKinds
  THEN [ok |-> FALSE, rows |-> << >>, conn |-> WriteStatement(s, q).store]
  ELSE IF q.kind = "count"
  THEN [ok |-> TRUE, rows |-> << [count |-> IntVal(RowCount(s, q.table))] >>, conn |-> s]
  ELSE [ok |-> TRUE,
        rows |-> IF q.id \in DOMAIN s[q.table].rows
                 THEN << RowWithId(q.table, q.id, s[q.table].rows[q.id]) >>
                 ELSE << >>,
        conn |-> s]

----------------------------------------------------------------------------
(* The operations of DatabaseManager.  fail is the index of the engine     *)
(* call that raises, counted over the calls the operation makes (0, or an  *)
(* index the operation does not reach: no call raises).  A call that       *)
(* raises before commit leaves the rows as they were: the changes of the   *)
(* open transaction are never committed.                                   *)

\* the order of the four executemany of insert_sample_data
SampleOrder == << "players", "matches", "series", "player_performances" >>

\* the executemany from the j-th on, each on the rows the one before left
RECURSIVE ExecuteManyFrom(_, _)
ExecuteManyFrom(s, j) ==
  IF j > Len(SampleOrder) THEN [ok |-> TRUE, store |-> s, n |-> 0]
  ELSE TheOne({IF r.ok THEN ExecuteManyFrom(r.store, j + 1) ELSE Raised(s) :
               r \in {ExecuteMany(s, SampleOrder[j])}})

\* insert_sample_data() without the count of players: it seeds every time
InsertSampleDataUngated(s, fail) ==
  IF fail \in 1..2 \/ ~TableExists(s, "players") THEN [store |-> s, raised |-> TRUE]
  ELSE TheOne({IF fail \in 3..7 \/ ~r.ok THEN [store |-> s, raised |-> TRUE]
               ELSE [store |-> r.store, raised |-> FALSE] :
               r \in {ExecuteManyFrom(s, 1)}})

\* insert_sample_data() counting the rows of player_performances, the last
\* table it seeds, in place of those of players
InsertSampleDataCountingLast(s, fail) ==
  IF fail \in 1..2 \/ ~TableExists(s, "player_performances")
  THEN [store |-> s, raised |-> TRUE]
  ELSE IF RowCount(s, "player_performances") > 0 THEN [store |-> s, raised |-> FALSE]
  ELSE TheOne({IF fail \in 3..7 \/ ~r.ok THEN [store |-> s, raised |-> TRUE]
               ELSE [store |-> r.store, raised |-> FALSE] :
               r \in {ExecuteManyFrom(s, 1)}})

\* insert_sample_data() with a commit after each executemany: the tables
\* seeded before the call that raises keep their rows
InsertSampleDataCommittingEach(s, fail) ==
  IF fail \in 1..2 \/ ~TableExists(s, "players") THEN [store |-> s, raised |-> TRUE]
  ELSE IF RowCount(s, "players") > 0 THEN [store |-> s, raised |-> FALSE]
  ELSE TheOne({[store |-> [t \in Tables |->
                             IF \E j \in 1..done : SampleOrder[j] = t
                             THEN ExecuteMany(s, t).store[t] ELSE s[t]],
                raised |-> fail \in 3..7] :
               done \in {IF fail \in 3..6 THEN fail - 3 ELSE 4}})

\* insert_sample_data(): 1 connect, 2 SELECT COUNT(*) FROM players, and when
\* players is empty 3..6 the four executemany, 7 commit
InsertSampleDataRun(s, fail) ==
  IF fail \in 1..2 \/ ~TableExists(s, "players") THEN [store |-> s, raised |-> TRUE]
  ELSE IF RowCount(s, "players") > 0 THEN [store |-> s, raised |-> FALSE]
  ELSE TheOne({IF fail \in 3..7 \/ ~r.ok THEN [store |-> s, raised |-> TRUE]
               ELSE [store |-> r.store, raised |-> FALSE] :
               r \in {ExecuteManyFrom(s, 1)}})

\* the store after the first k CREATE TABLE IF NOT EXISTS statements
CreateTables(s, k) ==
  [t \in Tables |->
     IF ~s[t].exists /\ (\E j \in 1..k : CreateOrder[j] = t) THEN EmptyTable ELSE s[t]]

\* init_database(): 1 connect, 2..5 the four CREATE TABLE (each takes effect
\* at once; the commit that follows has no transaction to commit), then
\* insert_sample_data() as calls 6..12.  Nothing is caught.
InitDatabaseRun(s, fail) ==
  LET k == IF fail = 1 THEN 0 ELSE IF fail \in 2..5 THEN fail - 2 ELSE 4
  IN TheOne({IF fail \in 1..5 THEN [store |-> s1, raised |-> TRUE]
             ELSE InsertSampleDataRun(s1, IF fail = 0 THEN 0 ELSE fail - 5) :
             s1 \in {CreateTables(s, k)}})

\* execute_query without its try/except
ExecuteQueryUncaught(s, q, fail) ==
  LET r == ReadSqlQuery(s, q)
  IN IF fail \in 1..2 \/ ~r.ok
     THEN [failed |-> TRUE, raised |-> TRUE, rows |-> << >>, store |-> s]
     ELSE [failed |-> FALSE, raised |-> FALSE, rows |-> r.rows, store |-> s]

\* execute_query with a conn.commit() after pd.read_sql_query has returned
\* or raised
ExecuteQueryCommitting(s, q, fail) ==
  LET r == ReadSqlQuery(s, q)
  IN IF fail = 1 THEN [failed |-> TRUE, raised |-> FALSE, rows |-> << >>, store |-> s]
     ELSE IF fail = 2 \/ ~r.ok
     THEN [failed |-> TRUE, raised |-> FALSE, rows |-> << >>, store |-> r.conn]
     ELSE [failed |-> FALSE, raised |-> FALSE, rows |-> r.rows, store |-> r.conn]

\* execute_query(query): 1 connect, 2 pd.read_sql_query; a DataFrame of the
\* rows, the empty DataFrame when anything raised.  The connection is closed
\* or dropped without a commit: the file keeps its content.
ExecuteQueryRun(s, q, fail) ==
  LET r == ReadSqlQuery(s, q)
  IN IF fail \in 1..2 \/ ~r.ok
     THEN [failed |-> TRUE, raised |-> FALSE, rows |-> << >>, store |-> s]
     ELSE [failed |-> FALSE, raised |-> FALSE, rows |-> r.rows, store |-> s]

\* insert_record on a connection in autocommit mode: the row is in the file
\* once execute has returned, also when commit raises
InsertRecordAutocommit(s, t, data, fail) ==
  LET r == InsertStatement(s, t, data)
  IN IF fail \in 1..2 \/ ~r.ok
     THEN [store |-> s, failed |-> TRUE, kind |-> "none", n |-> 0]
     ELSE IF fail = 3
     THEN [store |-> r.store, failed |-> TRUE, kind |-> "none", n |-> 0]
     ELSE [store |-> r.store, failed |-> FALSE, kind |-> "int", n |-> r.n]

\* insert_record(table, data): 1 connect, 2 execute, 3 commit; the new id,
\* None when anything raised
InsertRecordRun(s, t, data, fail) ==
  LET r == InsertStatement(s, t, data)
  IN IF fail \in 1..3 \/ ~r.ok
     THEN [store |-> s, failed |-> TRUE, kind |-> "none", n |-> 0]
     ELSE [store |-> r.store, failed |-> FALSE, kind |-> "int", n |-> r.n]

\* update_record(table, record_id, data): 1 connect, 2 execute, 3 commit;
\* the rows affected, 0 when anything raised
UpdateRecordRun(s, t, rid, data, fail) ==
  LET r == UpdateStatement(s, t, rid, data)
  IN IF fail \in 1..3 \/ ~r.ok
     THEN [store |-> s, failed |-> TRUE, kind |-> "int", n |-> 0]
     ELSE [store |-> r.store, failed |-> FALSE, kind |-> "int", n |-> r.n]

\* delete_record without the DELETE on player_performances
DeleteNothingRelated(s, t, rid) == [ok |-> TRUE, store |-> s, n |-> 0]

\* the DELETE on player_performances that delete_record runs first
DeleteRelated(s, t, rid) ==
  IF t = "players" THEN DeleteWhere(s, "player_performances", "player_id", rid)
  ELSE IF t = "matches" THEN DeleteWhere(s, "player_performances", "match_id", rid)
  ELSE [ok |-> TRUE, store |-> s, n |-> 0]

\* delete_record committing the DELETE of the related rows before the DELETE
\* of the record
DeleteRecordCommittingRelated(s, t, rid, fail) ==
  LET related == DeleteRelated(s, t, rid)
      main == DeleteStatement(related.store, t, rid)
      calls == IF t \in {"players", "matches"} THEN 4 ELSE 3
  IN IF fail \in 1..2 \/ ~related.ok
     THEN [store |-> s, failed |-> TRUE, kind |-> "int", n |-> 0]
     ELSE IF fail \in 3..calls \/ ~main.ok
     THEN [store |-> related.store, failed |-> TRUE, kind |-> "int", n |-> 0]
     ELSE [store |-> main.store, failed |-> FALSE, kind |-> "int", n |-> main.n]

\* delete_record(table, record_id): 1 connect, for players and matches the
\* DELETE of the related rows, the DELETE of the record, commit; the rows
\* affected by the DELETE of the record, 0 when anything raised
DeleteRecordRun(s, t, rid, fail) ==
  LET related == DeleteRelated(s, t, rid)
      main == DeleteStatement(related.store, t, rid)
      calls == IF t \in {"players", "matches"} THEN 4 ELSE 3
  IN IF fail \in 1..calls \/ ~related.ok \/ ~main.ok
     THEN [store |-> s, failed |-> TRUE, kind |-> "int", n |-> 0]
     ELSE [store |-> main.store, failed |-> FALSE, kind |-> "int", n |-> main.n]

\* the tables get_table_stats counts, in its order
StatsTables == << "players", "matches", "series", "player_performances" >>

\* get_table_stats() returning from its handler the mapping as far as it
\* was filled when a count raised
GetTableStatsAsFarAsCounted(s, fail) ==
  LET first == {j \in 1..Len(StatsTables) :
                  \A i \in 1..j : /\ fail # i + 1
                                  /\ ReadSqlQuery(s, SelectCount(StatsTables[i])).ok}
  IN IF fail = 1 THEN [failed |-> TRUE, stats |-> NoRows]
     ELSE [failed |-> first # 1..Len(StatsTables),
           stats |-> [t \in {StatsTables[j] : j \in first} |->
                        ReadSqlQuery(s, SelectCount(t)).rows[1].count.n]]

\* get_table_stats() counting the players table under every key
GetTableStatsOfPlayers(s, fail) ==
  IF fail \in 1..5 \/ \E t \in Tables : ~TableExists(s, t)
  THEN [failed |-> TRUE, stats |-> NoRows]
  ELSE [failed |-> FALSE, stats |-> [t \in Tables |-> RowCount(s, "players")]]

\* get_table_stats(): 1 connect, 2..5 SELECT COUNT(*) on each table; the
\* mapping table -> count, the empty mapping when anything raised
GetTableStatsRun(s, fail) ==
  LET counted == {j \in 1..Len(StatsTables) :
                    ReadSqlQuery(s, SelectCount(StatsTables[j])).ok}
  IN IF fail \in 1..5 \/ counted # 1..Len(StatsTables)
     THEN [failed |-> TRUE, stats |-> NoRows]
     ELSE [failed |-> FALSE,
           stats |-> [t \in {StatsTables[j] : j \in counted} |->
                        ReadSqlQuery(s, SelectCount(t)).rows[1].count.n]]

\* reset_database without its DROP TABLE statements
DropNoTable(s, k) == s

\* the store after the first k DROP TABLE IF EXISTS statements
DropTables(s, k) ==
  [t \in Tables |-> IF \E j \in 1..k : DropOrder[j] = t THEN NoTable ELSE s[t]]

\* reset_database() returning True from its handler as well
ResetDatabaseTrueAlways(s, fail) ==
  LET k == IF fail = 1 THEN 0 ELSE IF fail \in 2..5 THEN fail - 2 ELSE 4
  IN TheOne({IF fail \in 1..5 THEN [store |-> s1, b |-> TRUE]
             ELSE TheOne({[store |-> init.store, b |-> TRUE] :
                          init \in {InitDatabaseRun(s1, IF fail = 0 THEN 0 ELSE fail - 5)}}) :
             s1 \in {DropTables(s, k)}})

\* reset_database(): 1 connect, 2..5 the four DROP TABLE (each takes effect
\* at once), then init_database() as calls 6..17; True, False when anything
\* raised
ResetDatabaseRun(s, fail) ==
  LET k == IF fail = 1 THEN 0 ELSE IF fail \in 2..5 THEN fail - 2 ELSE 4
  IN TheOne({IF fail \in 1..5 THEN [store |-> s1, b |-> FALSE]
             ELSE TheOne({[store |-> init.store, b |-> ~init.raised] :
                          init \in {InitDatabaseRun(s1, IF fail = 0 THEN 0 ELSE fail - 5)}}) :
             s1 \in {DropTables(s, k)}})

----------------------------------------------------------------------------
(* The query catalog of SQLQueries: each entry is a label "Q<num>: <title>" *)
(* and the method it runs.                                                  *)

Query(num, title, method) == [num |-> num, title |-> title, method |-> method]

Label(e) == "Q" \o ToString(e.num) \o ": " \o e.title

BeginnerQueries ==
  << Query(1, "All Players from India", "query_1_indian_players"),
     Query(2, "Recent Matches (Last 30 Days)", "query_2_recent_matches"),
     Query(3, "Top 10 Run Scorers", "query_3_top_run_scorers"),
     Query(4, "Large Venues (50,000+ Capacity)", "query_4_large_venues"),
     Query(5, "Team Win Statistics", "query_5_team_wins"),
     Query(6, "Players by Role", "query_6_players_by_role"),
     Query(7, "Highest Scores by Format", "query_7_highest_scores_by_format"),
     Query(8, "Cricket Series Starting in 2024", "query_8_series_2024") >>

IntermediateQueries ==
  << Query(9, "Elite All-Rounders", "query_9_allrounders"),
     Query(10, "Last 20 Completed Matches", "query_10_completed_matches"),
     Query(11, "Multi-Format Player Performance", "query_11_format_comparison"),
     Query(12, "Home vs Away Performance", "query_12_home_away_analysis"),
     Query(13, "Century Partnerships", "query_13_partnerships"),
     Query(14, "Most Economical Bowlers", "query_14_venue_bowling"),
     Query(19, "Most Consistent Batsmen", "query_19_consistent_batsmen"),
     Query(20, "Multi-Format Experience", "query_20_format_experience") >>

AdvancedQueries ==
  << Query(21, "Performance Ranking System", "query_21_performance_ranking"),
     Query(22, "Head-to-Head Team Analysis", "query_22_head_to_head"),
     Query(23, "Recent Player Form Analysis", "query_23_recent_form"),
     Query(24, "Successful Batting Partnerships", "query_24_batting_partnerships"),
     Query(25, "Career Trajectory Analysis", "query_25_career_trajectory") >>

\* dict.update: an entry whose label the mapping holds replaces it in place,
\* any other is appended
RECURSIVE DictUpdate(_, _)
DictUpdate(d, more) ==
  IF more = << >> THEN d
  ELSE LET e == Head(more)
           at == {i \in 1..Len(d) : Label(d[i]) = Label(e)}
       IN DictUpdate(IF at = {} THEN Append(d, e)
                     ELSE [i \in 1..Len(d) |-> IF i \in at THEN e ELSE d[i]],
                     Tail(more))

\* get_queries_by_difficulty(difficulty) of a known tier
TierQueries(difficulty) ==
  CASE difficulty = "Beginner" -> BeginnerQueries
    [] difficulty = "Intermediate" -> IntermediateQueries
    [] difficulty = "Advanced" -> AdvancedQueries

\* get_all_queries() updating with the Advanced tier before the Intermediate
GetAllQueriesAdvancedSecond ==
  DictUpdate(DictUpdate(DictUpdate(<< >>, TierQueries("Beginner")),
                        TierQueries("Advanced")),
             TierQueries("Intermediate"))

\* get_all_queries(): the three tiers, one dict.update after the other
GetAllQueriesRun ==
  DictUpdate(DictUpdate(DictUpdate(<< >>, TierQueries("Beginner")),
                        TierQueries("Intermediate")),
             TierQueries("Advanced"))

GetQueriesByDifficultyRun(difficulty) ==
  IF difficulty \in {"Beginner", "Intermediate", "Advanced"}
  THEN TierQueries(difficulty)
  ELSE GetAllQueriesRun

\* the question numbers AppConfig and the pages give each tier
BEGINNER_QUERIES == 1..8

INTERMEDIATE_QUERIES == 9..16

ADVANCED_QUERIES == 17..25

----------------------------------------------------------------------------
(* The calls the pages make *)

\* table names the callers pass; "teams" names no table
TableArgs == Tables \cup {"teams"}

\* record ids the callers pass: a sample row of every table, and the id of
\* the first player added
RecordIds == {1, 16}

\* the player of the spec's scenario
NewPlayer ==
  [name |-> TextVal("Test Player"), country |-> TextVal("India"),
   total_runs |-> IntVal(500), batting_average |-> RealVal(4550)]

\* a player without the NOT NULL name
NamelessPlayer == [country |-> TextVal("India")]

\* values that are not of their columns' types: a number as name, a numeral
\* as total_runs, a whole number as batting_average
LoosePlayer ==
  [name |-> IntVal(7), total_runs |-> NumeralText(500), batting_average |-> IntVal(12)]

\* a player with an id of the caller's choice
KeyedPlayer == [id |-> IntVal(1), name |-> TextVal("Keyed Player")]

NewMatch ==
  [match_description |-> TextVal("India vs England, Final"),
   venue_capacity |-> IntVal(50000), match_date |-> TextVal("2024-05-01")]

NewSeries == [series_name |-> TextVal("Border-Gavaskar Trophy"), total_matches |-> IntVal(3)]

NewPerformance ==
  [player_id |-> IntVal(1), match_id |-> IntVal(2),
   runs_scored |-> IntVal(10), strike_rate |-> RealVal(12050)]

InsertMaps(t) ==
  CASE t = "players" -> {NewPlayer, NamelessPlayer, LoosePlayer, KeyedPlayer, NewSeries}
    [] t = "matches" -> {NewMatch}
    [] t = "series" -> {NewSeries}
    [] t = "player_performances" -> {NewPerformance}
    [] OTHER -> {NewPlayer}

UpdateMaps(t) ==
  CASE t = "players" -> {[total_runs |-> IntVal(9999)], [name |-> Null],
                         [id |-> IntVal(16), country |-> TextVal("England")]}
    [] t = "matches" -> {[winning_team |-> Null, venue_capacity |-> IntVal(5)]}
    [] t = "series" -> {[total_matches |-> IntVal(7)], [total_runs |-> IntVal(9999)]}
    [] t = "player_performances" -> {[runs_scored |-> IntVal(1)]}
    [] OTHER -> {[total_runs |-> IntVal(9999)]}

\* the data-modifying statements passed to execute_query: a valid INSERT, an
\* INSERT that violates NOT NULL, an UPDATE and a DELETE of a sample row
WriteQueries ==
  {InsertQuery("players", NewPlayer), InsertQuery("players", NamelessPlayer),
   UpdateQuery("players", 1, [total_runs |-> IntVal(9999)]),
   DeleteQuery("series", 1)}

Queries ==
  {SelectById("players", rid) : rid \in RecordIds}
    \cup {SelectCount(t) : t \in Tables} \cup {MalformedQuery} \cup WriteQueries

Difficulties == {"Beginner", "Intermediate", "Advanced", "All Queries"}

\* no call yet; each call sets the fields it has, before is the number of
\* rows of each table when the call started
NoCall ==
  [op |-> "none", table |-> "", id |-> 0, data |-> NoRows, query |-> MalformedQuery,
   failed |-> FALSE, raised |-> FALSE, kind |-> "none", n |-> 0, b |-> FALSE,
   rows |-> << >>, stats |-> NoRows, queries |-> << >>,
   run |-> 0, emptyBefore |-> FALSE, before |-> NoRows]

RowCounts(s) == [t \in Tables |-> RowCount(s, t)]

StoreEmpty(s) == \A t \in Tables : RowCount(s, t) = 0

\* the store a first DatabaseManager() leaves on a new file
Seeded == InitDatabaseRun(NoFile, 0).store

\* the bound: insert_record, update_record, delete_record and reset_database
\* may change the store max times before it is as seeded again
WithinOf(s, max) == (s # store /\ s # Seeded) => changes < max

Within(s) == WithinOf(s, MaxChanges)

Counted(s) ==
  IF s = Seeded THEN 0 ELSE IF s # store THEN changes + 1 ELSE changes

\* a caller that is in no call: op, data, n, raised and order tell of the
\* call it made last
Idle ==
  [op |-> "none", pc |-> "idle", data |-> NoRows, pending |-> NoFile,
   n |-> 0, raised |-> FALSE, order |-> 0, overlapped |-> FALSE, calls |-> 0]

Callers == {1, 2}

NoSessions == [p \in Callers |-> Idle]

\* no players id has been handed out and deleted
NoHistory == [gone |-> {}, ever |-> {}, top |-> 0]

----------------------------------------------------------------------------
(* The operations as actions.  Each takes the arguments the callers pass   *)
(* (maps gives the field maps for each table) and the engine calls that    *)
(* may fail; max bounds the changes of the store.                          *)

Init ==
  /\ store = NoFile
  /\ call = NoCall
  /\ constructed = FALSE
  /\ changes = 0
  /\ history = NoHistory
  /\ sessions = NoSessions

\* DatabaseManager(): __init__ runs init_database and lets it raise.  run
\* counts this call among the calls of __init__ made in a row (1, or 2 for
\* the second and later), emptyBefore tells whether that row of calls
\* started on a store without rows.
InitDatabaseOf(fails) ==
  \E fail \in fails :
    \E r \in {InitDatabaseRun(store, fail)},
       again \in {call.op = "init_database" /\ ~call.raised} :
       /\ store' = r.store
       /\ changes' = (IF r.store = Seeded THEN 0 ELSE changes)
       /\ call' = [NoCall EXCEPT !.op = "init_database", !.before = RowCounts(store),
                                 !.failed = r.raised, !.raised = r.raised,
                                 !.run = IF again THEN 2 ELSE 1,
                                 !.emptyBefore = IF again THEN call.emptyBefore
                                                 ELSE StoreEmpty(store)]
       /\ constructed' = (constructed \/ ~r.raised)

ExecuteQueryOf(queries, fails) ==
  /\ constructed
  /\ \E q \in queries, fail \in fails :
       \E r \in {ExecuteQueryRun(store, q, fail)} :
          /\ store' = r.store
          /\ call' = [NoCall EXCEPT !.op = "execute_query", !.before = RowCounts(store),
                                    !.query = q, !.table = q.table,
                                    !.id = q.id, !.failed = r.failed,
                                    !.raised = r.raised,
                                    !.kind = "table", !.rows = r.rows]
  /\ UNCHANGED << constructed, changes >>

InsertRecordOf(tables, maps, fails, max) ==
  /\ constructed
  /\ \E t \in tables, fail \in fails : \E data \in maps[t] :
       \E r \in {InsertRecordRun(store, t, data, fail)} :
          /\ WithinOf(r.store, max)
          /\ store' = r.store
          /\ changes' = Counted(r.store)
          /\ call' = [NoCall EXCEPT !.op = "insert_record", !.before = RowCounts(store),
                                    !.table = t, !.data = data,
                                    !.failed = r.failed, !.kind = r.kind, !.n = r.n]
  /\ UNCHANGED constructed

UpdateRecordOf(tables, ids, maps, fails, max) ==
  /\ constructed
  /\ \E t \in tables, rid \in ids, fail \in fails : \E data \in maps[t] :
       \E r \in {UpdateRecordRun(store, t, rid, data, fail)} :
          /\ WithinOf(r.store, max)
          /\ store' = r.store
          /\ changes' = Counted(r.store)
          /\ call' = [NoCall EXCEPT !.op = "update_record", !.before = RowCounts(store),
                                    !.table = t, !.id = rid,
                                    !.data = data, !.failed = r.failed,
                                    !.kind = r.kind, !.n = r.n]
  /\ UNCHANGED constructed

DeleteRecordOf(tables, ids, fails, max) ==
  /\ constructed
  /\ \E t \in tables, rid \in ids, fail \in fails :
       \E r \in {DeleteRecordRun(store, t, rid, fail)} :
          /\ WithinOf(r.store, max)
          /\ store' = r.store
          /\ changes' = Counted(r.store)
          /\ call' = [NoCall EXCEPT !.op = "delete_record", !.before = RowCounts(store),
                                    !.table = t, !.id = rid,
                                    !.failed = r.failed, !.kind = r.kind, !.n = r.n]
  /\ UNCHANGED constructed

GetTableStatsOf(fails) ==
  /\ constructed
  /\ \E fail \in fails :
       \E r \in {GetTableStatsRun(store, fail)} :
          call' = [NoCall EXCEPT !.op = "get_table_stats", !.before = RowCounts(store),
                                 !.failed = r.failed,
                                 !.kind = "mapping", !.stats = r.stats]
  /\ UNCHANGED << store, constructed, changes >>

ResetDatabaseOf(fails, max) ==
  /\ constructed
  /\ \E fail \in fails :
       \E r \in {ResetDatabaseRun(store, fail)} :
          /\ WithinOf(r.store, max)
          /\ store' = r.store
          /\ changes' = Counted(r.store)
          /\ call' = [NoCall EXCEPT !.op = "reset_database", !.before = RowCounts(store),
                                    !.failed = ~r.b,
                                    !.kind = "bool", !.b = r.b]
  /\ UNCHANGED constructed

----------------------------------------------------------------------------
(* The connections of a call: what it does with sqlite3 connections, in    *)
(* order, "open" for a get_connection() that returned and "close" for a    *)
(* conn.close().  No operation closes its connection in its handler or in  *)
(* a finally clause: a call that raises after get_connection() leaves the  *)
(* connection to the garbage collector.                                    *)

\* an operation with one try block: get_connection() is call 1, close()
\* follows the last statement
OneConnection(fail, failed) ==
  IF fail = 1 THEN << >>
  ELSE IF failed THEN << "open" >>
  ELSE << "open", "close" >>

ExecuteQueryTrace(s, q, fail) == OneConnection(fail, ExecuteQueryRun(s, q, fail).failed)

InsertRecordTrace(s, t, data, fail) ==
  OneConnection(fail, InsertRecordRun(s, t, data, fail).failed)

UpdateRecordTrace(s, t, rid, data, fail) ==
  OneConnection(fail, UpdateRecordRun(s, t, rid, data, fail).failed)

DeleteRecordTrace(s, t, rid, fail) ==
  OneConnection(fail, DeleteRecordRun(s, t, rid, fail).failed)

GetTableStatsTrace(s, fail) == OneConnection(fail, GetTableStatsRun(s, fail).failed)

\* insert_sample_data(): its own connection, closed before the early return
\* and after the commit
InsertSampleDataTrace(s, fail) ==
  OneConnection(fail, InsertSampleDataRun(s, fail).raised)

\* init_database() doing the seeding on the connection of the CREATE TABLE
\* statements
InitDatabaseTraceOneConnection(s, fail) ==
  OneConnection(fail, InitDatabaseRun(s, fail).raised)

\* init_database(): the connection of the CREATE TABLE statements is closed
\* before insert_sample_data() is called
InitDatabaseTrace(s, fail) ==
  IF fail \in 1..5 THEN OneConnection(fail, TRUE)
  ELSE << "open", "close" >>
         \o InsertSampleDataTrace(CreateTables(s, Len(CreateOrder)),
                                  IF fail = 0 THEN 0 ELSE fail - 5)

\* reset_database(): the connection of the DROP TABLE statements is closed
\* before init_database() is called
ResetDatabaseTrace(s, fail) ==
  IF fail \in 1..5 THEN OneConnection(fail, TRUE)
  ELSE << "open", "close" >>
         \o InitDatabaseTrace(DropTables(s, Len(DropOrder)),
                              IF fail = 0 THEN 0 ELSE fail - 5)

\* the connections a trace opened, and those it has open after its first k
\* steps
Opened(trace) == Cardinality({k \in DOMAIN trace : trace[k] = "open"})

OpenAfter(trace, k) ==
  Cardinality({j \in 1..k : trace[j] = "open"})
    - Cardinality({j \in 1..k : trace[j] = "close"})

\* the traces of the calls of execute_query, insert_record, update_record,
\* delete_record and get_table_stats that can be made on s
OneUnitTraces(s) ==
  {ExecuteQueryTrace(s, q, fail) : q \in Queries, fail \in 0..2}
    \cup UNION {{InsertRecordTrace(s, t, data, fail) : data \in InsertMaps(t), fail \in 0..3} :
                t \in TableArgs}
    \cup UNION {{UpdateRecordTrace(s, t, rid, data, fail) :
                   data \in UpdateMaps(t), rid \in RecordIds, fail \in 0..3} : t \in TableArgs}
    \cup {DeleteRecordTrace(s, t, rid, fail) : t \in TableArgs, rid \in RecordIds, fail \in 0..4}
    \cup {GetTableStatsTrace(s, fail) : fail \in 0..5}

InitTraces(s) == {InitDatabaseTrace(s, fail) : fail \in 0..12}

ResetTraces(s) == {ResetDatabaseTrace(s, fail) : fail \in 0..17}

----------------------------------------------------------------------------
(* The state machine: every operation on every table, every engine call    *)
(* may fail.                                                                *)

InitDatabase == InitDatabaseOf(0..12) /\ UNCHANGED << history, sessions >>

ExecuteQuery == ExecuteQueryOf(Queries, 0..2) /\ UNCHANGED << history, sessions >>

InsertRecord ==
  InsertRecordOf(TableArgs, [t \in TableArgs |-> InsertMaps(t)],
                 0..3, MaxChanges) /\ UNCHANGED << history, sessions >>

UpdateRecord ==
  UpdateRecordOf(TableArgs, RecordIds, [t \in TableArgs |-> UpdateMaps(t)],
                 0..3, MaxChanges) /\ UNCHANGED << history, sessions >>

DeleteRecord == DeleteRecordOf(TableArgs, RecordIds, 0..4, MaxChanges) /\ UNCHANGED << history, sessions >>

GetTableStats == GetTableStatsOf(0..5) /\ UNCHANGED << history, sessions >>

ResetDatabase == ResetDatabaseOf(0..17, MaxChanges) /\ UNCHANGED << history, sessions >>

GetQueriesByDifficulty ==
  /\ constructed
  /\ \E d \in Difficulties :
       call' = [NoCall EXCEPT !.op = "get_queries_by_difficulty", !.table = d,
                              !.kind = "mapping",
                              !.queries = GetQueriesByDifficultyRun(d)]
  /\ UNCHANGED << store, constructed, changes, history, sessions >>

GetAllQueries ==
  /\ constructed
  /\ call' = [NoCall EXCEPT !.op = "get_all_queries", !.kind = "mapping",
                            !.queries = GetAllQueriesRun]
  /\ UNCHANGED << store, constructed, changes, history, sessions >>

Next ==
  \/ InitDatabase
  \/ ExecuteQuery
  \/ InsertRecord
  \/ UpdateRecord
  \/ DeleteRecord
  \/ GetTableStats
  \/ ResetDatabase
  \/ GetQueriesByDifficulty
  \/ GetAllQueries

Spec == Init /\ [][Next]_vars

----------------------------------------------------------------------------
(* The players page alone: players are added, edited, deleted and looked   *)
(* up by id, the database is reset, and the history of the ids that were   *)
(* handed out and deleted is kept.                                          *)

PlayerTables == {"players"}

PlayerInsertMaps(t) == {NewPlayer, KeyedPlayer}

PlayerUpdateMaps(t) ==
  {[total_runs |-> IntVal(9999)], [id |-> IntVal(16), country |-> TextVal("England")]}

PlayerQueries == {SelectById("players", rid) : rid \in RecordIds}

\* the last call was insert_record("players", f) returning a positive id and
\* this call is delete_record("players", id) for that id
DeletesTheInserted ==
  /\ call.op = "insert_record" /\ call.table = "players"
  /\ call.kind = "int" /\ call.n > 0
  /\ call'.op = "delete_record" /\ call'.table = "players" /\ call'.id = call.n

\* the ids this call may have written again: all of them when the table is
\* dropped (reset_database) or seeded (init_database on a players table
\* without rows), the id a field map of insert_record or update_record names
WrittenAgain ==
  IF \/ call'.op = "reset_database"
     \/ call'.op = "init_database" /\ call'.before["players"] = 0
  THEN history.gone
  ELSE IF /\ call'.op \in {"insert_record", "update_record"}
          /\ call'.table = "players" /\ ~call'.failed
          /\ "id" \in DOMAIN call'.data
  THEN {call'.data["id"].n}
  ELSE {}

\* the ids this call inserted players rows with: the id insert_record
\* returned, the ids of the rows insert_sample_data wrote
InsertedNow ==
  IF /\ call'.op = "insert_record" /\ call'.table = "players"
     /\ call'.kind = "int" /\ call'.n > 0
  THEN {call'.n}
  ELSE IF /\ call'.op \in {"init_database", "reset_database"}
          /\ TableExists(store', "players")
          /\ store'["players"] # store["players"]
  THEN DOMAIN store'["players"].rows
  ELSE {}

\* the largest id a players row was inserted with since reset_database last
\* dropped the table
TopAfter ==
  LET dropped == call'.op = "reset_database" /\ store'["players"] # store["players"]
  IN Max(IF dropped THEN 0 ELSE history.top, SetMax(InsertedNow))

HistoryAfter ==
  LET deleted == IF DeletesTheInserted /\ call'.n = 1 THEN {call'.id} ELSE {}
  IN [gone |-> (history.gone \ WrittenAgain) \cup deleted,
      ever |-> history.ever \cup deleted,
      top |-> TopAfter]

PlayerInitDatabase == InitDatabaseOf({0, 7}) /\ history' = HistoryAfter /\ UNCHANGED sessions

PlayerExecuteQuery == ExecuteQueryOf(PlayerQueries, 0..2) /\ history' = HistoryAfter /\ UNCHANGED sessions

PlayerInsertRecord ==
  /\ InsertRecordOf(PlayerTables, [t \in PlayerTables |-> PlayerInsertMaps(t)],
                    0..3, MaxPlayerChanges)
  /\ history' = HistoryAfter /\ UNCHANGED sessions

PlayerUpdateRecord ==
  /\ UpdateRecordOf(PlayerTables, RecordIds, [t \in PlayerTables |-> PlayerUpdateMaps(t)],
                    0..3, MaxPlayerChanges)
  /\ history' = HistoryAfter /\ UNCHANGED sessions

PlayerDeleteRecord ==
  /\ DeleteRecordOf(PlayerTables, RecordIds, 0..4, MaxPlayerChanges)
  /\ history' = HistoryAfter /\ UNCHANGED sessions

PlayerResetDatabase == ResetDatabaseOf({0, 6}, MaxPlayerChanges) /\ history' = HistoryAfter /\ UNCHANGED sessions

PlayerNext ==
  \/ PlayerInitDatabase
  \/ PlayerExecuteQuery
  \/ PlayerInsertRecord
  \/ PlayerUpdateRecord
  \/ PlayerDeleteRecord
  \/ PlayerResetDatabase

PlayerSpec == Init /\ [][PlayerNext]_vars

----------------------------------------------------------------------------
(* Seeding again: DatabaseManager() on each rerun of a page, reset and the *)
(* deletion of players, one after the other until the table is empty.      *)

\* the changes insert_sample_data is followed through: the fifteen seeded
\* players can all be deleted
MaxSeedChanges == 15

SetMin(S) == IF S = {} THEN 0 ELSE CHOOSE x \in S : \A y \in S : x <= y

\* the ids delete_record("players", id) is called with: the smallest and the
\* largest id of the table
EndIds(s) ==
  IF TableExists(s, "players")
  THEN {SetMin(DOMAIN s["players"].rows), SetMax(DOMAIN s["players"].rows)}
  ELSE {0}

\* DatabaseManager() with no engine call failing: the tables it leaves are
\* never without their rows
SeedInitDatabase == InitDatabaseOf({0}) /\ UNCHANGED << history, sessions >>

SeedDeleteRecord ==
  DeleteRecordOf({"players"}, EndIds(store), {0, 3}, MaxSeedChanges)
    /\ UNCHANGED << history, sessions >>

SeedResetDatabase ==
  ResetDatabaseOf({0, 6}, MaxSeedChanges) /\ UNCHANGED << history, sessions >>

SeedNext ==
  \/ SeedInitDatabase
  \/ SeedDeleteRecord
  \/ SeedResetDatabase

SeedSpec == Init /\ [][SeedNext]_vars

----------------------------------------------------------------------------

(* Two callers at the same time (two admin sessions, each with its own     *)
(* DatabaseManager and its own connections).  A call is taken apart at the *)
(* engine calls between which the other caller can act.  A statement that  *)
(* writes takes the write lock of the file and keeps it until its          *)
(* connection commits; a caller that needs the lock while the other has it *)
(* waits, and its statement raises "database is locked" when the wait      *)
(* outlasts the timeout of the connection.                                 *)

\* the field maps the two callers pass to update_record("players", 1, ...)
RaceMaps ==
  [p \in Callers |->
     IF p = 1 THEN [country |-> TextVal("England"), total_runs |-> IntVal(1111)]
     ELSE [country |-> TextVal("Australia"), total_runs |-> IntVal(2222)]]

RaceOps == {"init_database", "update_record"}

Other(p) == CHOOSE q \in Callers : q # p

\* the other caller holds the write lock
Busy(p) == sessions[Other(p)].pc = "written"

CallsStarted == sessions[1].calls + sessions[2].calls

\* the place of the next commit among the commits of the calls on record
NextOrder == Max(sessions[1].order, sessions[2].order) + 1

\* caller p enters op: DatabaseManager() or update_record, get_connection
StartCall(p, op) ==
  /\ sessions[p].pc = "idle"
  /\ CallsStarted < MaxConcurrentCalls
  /\ op = "update_record" => constructed
  /\ \E both \in {sessions[Other(p)].pc # "idle"} :
       sessions' =
         [q \in Callers |->
            IF q = p
            THEN [Idle EXCEPT !.op = op, !.pc = "connected",
                              !.data = IF op = "update_record" THEN RaceMaps[p] ELSE NoRows,
                              !.overlapped = both, !.calls = sessions[p].calls + 1]
            ELSE [sessions[q] EXCEPT !.overlapped = @ \/ both]]
  /\ UNCHANGED << store, constructed, call, changes, history >>

\* update_record: cursor.execute of the UPDATE, on the rows committed so far
UpdateExecute(p) ==
  /\ sessions[p].op = "update_record" /\ sessions[p].pc = "connected"
  /\ ~Busy(p)
  /\ \E r \in {UpdateStatement(store, "players", 1, sessions[p].data)} :
       sessions' = [sessions EXCEPT ![p] =
                      IF r.ok THEN [@ EXCEPT !.pc = "written", !.pending = r.store, !.n = r.n]
                      ELSE [@ EXCEPT !.pc = "idle", !.raised = TRUE, !.n = 0]]
  /\ UNCHANGED << store, constructed, call, changes, history >>

\* init_database: the four CREATE TABLE IF NOT EXISTS; one that has a table
\* to create needs the write lock
InitCreate(p) ==
  /\ sessions[p].op = "init_database" /\ sessions[p].pc = "connected"
  /\ (\E t \in Tables : ~TableExists(store, t)) => ~Busy(p)
  /\ store' = CreateTables(store, Len(CreateOrder))
  /\ sessions' = [sessions EXCEPT ![p].pc = "created"]
  /\ UNCHANGED << constructed, call, changes, history >>

\* insert_sample_data: SELECT COUNT(*) FROM players and the return when
\* there are rows
InitCount(p) ==
  /\ sessions[p].op = "init_database" /\ sessions[p].pc = "created"
  /\ IF RowCount(store, "players") > 0
     THEN /\ sessions' = [sessions EXCEPT ![p].pc = "idle"]
          /\ constructed' = TRUE
     ELSE /\ sessions' = [sessions EXCEPT ![p].pc = "counted"]
          /\ UNCHANGED constructed
  /\ UNCHANGED << store, call, changes, history >>

\* insert_sample_data: the four executemany, on the rows committed so far
InitInsert(p) ==
  /\ sessions[p].op = "init_database" /\ sessions[p].pc = "counted"
  /\ ~Busy(p)
  /\ \E r \in {ExecuteManyFrom(store, 1)} :
       sessions' = [sessions EXCEPT ![p] =
                      IF r.ok THEN [@ EXCEPT !.pc = "written", !.pending = r.store]
                      ELSE [@ EXCEPT !.pc = "idle", !.raised = TRUE]]
  /\ UNCHANGED << store, constructed, call, changes, history >>

\* conn.commit(): what the connection wrote becomes the content of the file
Commit(p) ==
  /\ sessions[p].pc = "written"
  /\ store' = sessions[p].pending
  /\ sessions' = [sessions EXCEPT ![p].pc = "idle", ![p].pending = NoFile,
                                  ![p].order = NextOrder]
  /\ constructed' = (constructed \/ sessions[p].op = "init_database")
  /\ UNCHANGED << call, changes, history >>

\* the wait for the write lock outlasts the timeout: the statement raises;
\* update_record returns 0, init_database lets the exception out
LockTimeout(p) ==
  /\ Busy(p)
  /\ \/ sessions[p].pc = "connected"
        /\ (sessions[p].op = "init_database" => \E t \in Tables : ~TableExists(store, t))
     \/ sessions[p].pc = "counted"
  /\ sessions' = [sessions EXCEPT ![p].pc = "idle", ![p].raised = TRUE, ![p].n = 0]
  /\ UNCHANGED << store, constructed, call, changes, history >>

RaceNext ==
  \/ \E p \in Callers, op \in RaceOps : StartCall(p, op)
  \/ \E p \in Callers : UpdateExecute(p)
  \/ \E p \in Callers : InitCreate(p)
  \/ \E p \in Callers : InitCount(p)
  \/ \E p \in Callers : InitInsert(p)
  \/ \E p \in Callers : Commit(p)
  \/ \E p \in Callers : LockTimeout(p)

RaceSpec == Init /\ [][RaceNext]_vars


----------------------------------------------------------------------------
(* Seeding and reset *)

\* C1: when init_database is called twice in a row, the first call made on
\* a store without rows and not raising, the second call leaves in each of
\* the four tables the number of rows the first call left: no seed row is
\* inserted a second time.
C1_InitTwiceSameCounts ==
  (call.op = "init_database" /\ call.run = 2 /\ call.emptyBefore)
    => RowCounts(store) = call.before

\* the second of two calls in a row has returned, the seed rows are there once
C1_Witness ==
  /\ call.op = "init_database" /\ call.run = 2 /\ call.emptyBefore /\ ~call.raised
  /\ RowCount(store, "players") = 15
  /\ RowCount(store, "player_performances") = 10

\* C2: an init_database call that starts with at least one row in players
\* inserts no row into any of the four tables and leaves every row as it
\* was (a table that was missing is created without rows).
C2_SeedGate ==
  [][(call'.op = "init_database" /\ RowCount(store, "players") > 0)
       => \A t \in Tables : store'[t].rows = store[t].rows]_vars

\* init_database has run on a store with players and without the
\* player_performances rows: the table is there, and empty
C2_Witness ==
  /\ call.op = "init_database" /\ ~call.raised
  /\ call.before["players"] > 0
  /\ TableExists(store, "player_performances")
  /\ RowCount(store, "player_performances") = 0

\* C3: after a reset_database call that returned True, from whatever state
\* it was made in, get_table_stats returns players 15, matches 8, series 5
\* and player_performances 10.
C3_ResetRestoresBaseline ==
  (call.op = "reset_database" /\ call.b)
    => LET r == GetTableStatsRun(store, 0)
       IN /\ ~r.failed
          /\ DOMAIN r.stats = Tables
          /\ r.stats["players"] = 15
          /\ r.stats["matches"] = 8
          /\ r.stats["series"] = 5
          /\ r.stats["player_performances"] = 10

\* reset_database has returned True on a store that held a sixteenth player
C3_Witness ==
  call.op = "reset_database" /\ call.b /\ call.before["players"] = 16

----------------------------------------------------------------------------
(* Deleting *)

\* the player_performances rows whose column c holds the integer rid
Referencing(s, c, rid) ==
  {i \in DOMAIN s["player_performances"].rows :
     s["player_performances"].rows[i][c] = IntVal(rid)}

\* C4: after a delete_record call on players that did not fail, no
\* player_performances row has the player_id of the call, and after one on
\* matches none has its match_id, whatever the id and the state before.
C4_DeleteCascade ==
  (call.op = "delete_record" /\ ~call.failed)
    => /\ call.table = "players" => Referencing(store, "player_id", call.id) = {}
       /\ call.table = "matches" => Referencing(store, "match_id", call.id) = {}

\* a player with performances has been deleted, and the performances with it
C4_Witness ==
  /\ call.op = "delete_record" /\ ~call.failed
  /\ call.table = "players" /\ call.n = 1
  /\ RowCount(store, "player_performances") < call.before["player_performances"]

----------------------------------------------------------------------------
(* Exceptions *)

\* C5: no operation of the layer raises to its caller, init_database
\* included when it cannot create or seed the tables.
C5_NothingRaised == ~call.raised

----------------------------------------------------------------------------
(* The catalog *)

Labels(queries) == {Label(queries[i]) : i \in 1..Len(queries)}

\* C6: get_all_queries returns exactly 25 entries, and
\* get_queries_by_difficulty 8 for "Beginner", 8 for "Intermediate" and 9
\* for "Advanced".
C6_CatalogComplete ==
  /\ call.op = "get_all_queries" => Len(call.queries) = 25
  /\ call.op = "get_queries_by_difficulty" =>
       /\ call.table = "Beginner" => Len(call.queries) = 8
       /\ call.table = "Intermediate" => Len(call.queries) = 8
       /\ call.table = "Advanced" => Len(call.queries) = 9

\* C7: the labels of the three tiers are pairwise disjoint, together they
\* are the labels of get_all_queries, and get_all_queries lists the
\* Beginner entries, then the Intermediate, then the Advanced, each tier in
\* the order get_queries_by_difficulty gives it.
C7_TiersPartition ==
  call.op = "get_all_queries" =>
    LET beginner == GetQueriesByDifficultyRun("Beginner")
        intermediate == GetQueriesByDifficultyRun("Intermediate")
        advanced == GetQueriesByDifficultyRun("Advanced")
    IN /\ Labels(beginner) \cap Labels(intermediate) = {}
       /\ Labels(beginner) \cap Labels(advanced) = {}
       /\ Labels(intermediate) \cap Labels(advanced) = {}
       /\ Labels(beginner) \cup Labels(intermediate) \cup Labels(advanced)
            = Labels(call.queries)
       /\ call.queries = beginner \o intermediate \o advanced

\* get_all_queries has returned its entries
C7_Witness ==
  /\ call.op = "get_all_queries"
  /\ Len(call.queries) > 0
  /\ Cardinality(Labels(call.queries)) = Len(call.queries)

\* the question numbers of a tier
TierNumbers(difficulty) ==
  CASE difficulty = "Beginner" -> BEGINNER_QUERIES
    [] difficulty = "Intermediate" -> INTERMEDIATE_QUERIES
    [] difficulty = "Advanced" -> ADVANCED_QUERIES

\* C8: every entry of a tier has a question number of the tier's range:
\* Q1-Q8 Beginner, Q9-Q16 Intermediate, Q17-Q25 Advanced.
C8_NumbersMatchTiers ==
  (call.op = "get_queries_by_difficulty"
     /\ call.table \in {"Beginner", "Intermediate", "Advanced"})
    => \A i \in 1..Len(call.queries) :
         call.queries[i].num \in TierNumbers(call.table)

----------------------------------------------------------------------------
(* Inserting and updating *)

\* v is a value of the declared type decl
FitsType(decl, v) ==
  CASE decl = "TEXT" -> v.k = "text"
    [] decl = "INTEGER" -> v.k = "integer"
    [] decl = "REAL" -> v.k = "real"
    [] OTHER -> v.k = "text" /\ ~IsIntegerText(v)

\* a valid field map of table t: it names columns of t only, the NOT NULL
\* ones among them, each with a value of the column's declared type
ValidFieldMap(t, f) ==
  /\ t \in Tables
  /\ DOMAIN f # {}
  /\ DOMAIN f \subseteq ColumnNames(t)
  /\ \A c \in DOMAIN f : FitsType(ColumnOf(t, c).decl, f[c])
  /\ \A c \in ColumnNames(t) : ColumnOf(t, c).notnull => c \in DOMAIN f

\* execute_query("SELECT * FROM t WHERE id = rid") returns exactly one row,
\* with the value of f in every column f names
RoundTrip(s, t, rid, f) ==
  LET q == ExecuteQueryRun(s, SelectById(t, rid), 0)
  IN /\ ~q.failed
     /\ Len(q.rows) = 1
     /\ q.rows[1]["id"] = IntVal(rid)
     /\ \A c \in DOMAIN f : q.rows[1][c] = f[c]

\* C9: for every valid field map f of a table t, the id insert_record(t, f)
\* returns selects through execute_query exactly one row of t, holding f's
\* value in every column f names; and in every state in which t exists,
\* insert_record(t, f) returns such an id when no call to the engine fails.
C9_InsertRoundTrip ==
  /\ (call.op = "insert_record" /\ call.kind = "int"
        /\ ValidFieldMap(call.table, call.data))
       => RoundTrip(store, call.table, call.n, call.data)
  /\ \A t \in Tables : \A f \in InsertMaps(t) :
       (ValidFieldMap(t, f) /\ TableExists(store, t))
         => \E r \in {InsertRecordRun(store, t, f, 0)} :
               /\ ~r.failed /\ r.kind = "int"
               /\ RoundTrip(r.store, t, r.n, f)

\* a valid player has been inserted after the fifteen of the sample data
C9_Witness ==
  /\ call.op = "insert_record" /\ call.kind = "int"
  /\ call.table = "players" /\ call.n = 16
  /\ ValidFieldMap(call.table, call.data)

\* C10: update_record(table, id, field_map) leaves every row of the other
\* three tables and every other row of table as it was, adds and removes no
\* row, and leaves in the row of that id every column field_map does not
\* name as it was.
C10_UpdateFrame ==
  [][call'.op = "update_record" =>
       /\ \A u \in Tables \ {call'.table} : store'[u].rows = store[u].rows
       /\ call'.table \in Tables =>
            LET old == store[call'.table].rows
                new == store'[call'.table].rows
                others == DOMAIN old \ {call'.id}
            IN /\ \A i \in others : i \in DOMAIN new /\ new[i] = old[i]
               /\ Cardinality(DOMAIN new) = Cardinality(DOMAIN old)
               /\ "id" \notin DOMAIN call'.data => DOMAIN new = DOMAIN old
               /\ \A i \in DOMAIN new \ others :
                    \A c \in ColumnNames(call'.table) \ DOMAIN call'.data :
                      new[i][c] = old[call'.id][c]]_vars

\* update_record has set total_runs of the first player, in a table of
\* fifteen
C10_Witness ==
  /\ call.op = "update_record" /\ call.n = 1 /\ ~call.failed
  /\ call.table = "players" /\ call.id = 1
  /\ DOMAIN call.data = {"total_runs"}
  /\ store["players"].rows[1]["total_runs"] = call.data["total_runs"]
  /\ store["players"].rows[1]["total_runs"] # IntVal(12000)
  /\ RowCount(store, "players") = 15

\* what execute_query returns now for the players row with this id
PlayerRowNow(s, id) == ExecuteQueryRun(s, SelectById("players", id), 0).rows

C12_StatsConsistent ==
  /\ (\A t \in Tables : TableExists(store, t)) =>
       \A t \in Tables :
         \E st \in {GetTableStatsRun(store, 0)},
            q \in {ExecuteQueryRun(store, SelectCount(t), 0)} :
            /\ ~st.failed /\ ~q.failed /\ Len(q.rows) = 1
            /\ t \in DOMAIN st.stats
            /\ st.stats[t] = q.rows[1].count.n
  /\ (call.op = "get_table_stats" /\ ~call.failed) =>
       \A t \in Tables :
          << [count |-> IntVal(call.stats[t])] >>
            = ExecuteQueryRun(store, SelectCount(t), 0).rows

\* get_table_stats() returned its mapping after a row was added or deleted
C12_Witness ==
  /\ call.op = "get_table_stats" /\ ~call.failed
  /\ \A t \in Tables : TableExists(store, t)
  /\ RowCounts(store) # RowCounts(Seeded)

\* C13: when what execute_query runs fails (malformed SQL, a missing table,
\* a constraint violation, any call of the engine raising), execute_query
\* returns an empty table, raises nothing, and the rows of the four tables
\* are what they were.
C13_QueryFailureIsSafe ==
  [][(call'.op = "execute_query" /\ call'.failed) =>
       /\ call'.kind = "table" /\ call'.rows = << >>
       /\ ~call'.raised
       /\ \A t \in Tables : store'[t].rows = store[t].rows]_vars

\* execute_query was given an INSERT that violates NOT NULL on a store in
\* which a row had been changed, and returned the empty table
C13_Witness ==
  /\ call.op = "execute_query" /\ call.failed
  /\ call.query = InsertQuery("players", NamelessPlayer)
  /\ TableExists(store, "players")
  /\ store # Seeded
  /\ call.rows = << >>

\* C14 (as stated): a data-modifying statement passed to execute_query takes
\* effect on the store: where the engine does not fail, the store after the
\* call is the store after the statement.
C14_WritesTakeEffect ==
  \A q \in WriteQueries :
    (constructed /\ TableExists(store, q.table)) =>
       ExecuteQueryRun(store, q, 0).store = WriteStatement(store, q).store

\* C14 (amended): a data-modifying statement (INSERT, UPDATE or DELETE)
\* passed to execute_query is never committed: the store is left as it was,
\* which is what a later execute_query or get_table_stats observes.
C14_WritesNotCommitted ==
  [][(call'.op = "execute_query" /\ call'.query.kind \in WriteKinds) =>
       store' = store]_vars

\* execute_query was given a valid INSERT of a player and the players table
\* has the rows it had
C14_Witness ==
  /\ call.op = "execute_query"
  /\ call.query = InsertQuery("players", NewPlayer)
  /\ WriteStatement(store, call.query).ok
  /\ RowCounts(store) = call.before
  /\ ExecuteQueryRun(store, SelectById("players", NextRowId(store["players"])), 0).rows = << >>

\* C15: update_record returns the number of rows whose id is record_id when
\* the UPDATE runs, 1 when the row exists and 0 when no row has that id, and
\* returns 0 when anything fails.
C15_UpdateCount ==
  [][(call'.op = "update_record") =>
       /\ call'.kind = "int"
       /\ call'.failed => call'.n = 0
       /\ ~call'.failed =>
            call'.n = Cardinality({i \in DOMAIN store[call'.table].rows : i = call'.id})]_vars

\* update_record set total_runs of player 1, a row that exists, and
\* returned 1
C15_Witness ==
  /\ call.op = "update_record" /\ ~call.failed
  /\ call.table = "players" /\ call.id = 1
  /\ call.data = [total_runs |-> IntVal(9999)]
  /\ call.n = 1
  /\ changes = 1

\* the update writes nothing new: the row with id = record_id exists and
\* holds, for every field of the field map, the given value
NoOpUpdate ==
  /\ call'.op = "update_record" /\ ~call'.failed
  /\ "id" \notin DOMAIN call'.data
  /\ call'.id \in DOMAIN store[call'.table].rows
  /\ \A c \in DOMAIN call'.data :
        store[call'.table].rows[call'.id][c]
          = ApplyAffinity(Affinity(ColumnOf(call'.table, c).decl), call'.data[c])

\* C16: update_record returns 0 for a no-op update: when the row with
\* id = record_id exists and every field of the field map already holds the
\* given value, the count returned is 0.
C16_NoOpUpdateReturnsZero ==
  [][NoOpUpdate => call'.n = 0]_vars

\* C17: when insert_record fails (unknown table, unknown column, NOT NULL
\* violation, any call of the engine raising) it returns None and the rows
\* of the four tables are the same as before the call.
C17_InsertFailure ==
  [][(call'.op = "insert_record" /\ call'.failed) =>
       /\ call'.kind = "none"
       /\ \A t \in Tables : store'[t].rows = store[t].rows
       /\ RowCounts(store') = call'.before]_vars

\* insert_record was given a players field map without name, on a store in
\* which a row had been changed, and returned None
C17_Witness ==
  /\ call.op = "insert_record" /\ call.failed
  /\ call.table = "players" /\ call.data = NamelessPlayer
  /\ call.kind = "none"
  /\ TableExists(store, "players")
  /\ store # Seeded

\* C18: get_table_stats returns either a mapping with exactly the four keys
\* players, matches, series and player_performances, or, when the count on
\* any table fails (a missing table, a raising call), the empty mapping;
\* never a mapping with some of the four keys.
C18_StatsAllOrNothing ==
  (call.op = "get_table_stats") =>
     /\ call.kind = "mapping"
     /\ DOMAIN call.stats \in {Tables, {}}
     /\ call.failed <=> DOMAIN call.stats = {}
     /\ (\E t \in Tables : ~TableExists(store, t)) => DOMAIN call.stats = {}

\* get_table_stats() ran on a store where players exists and another table
\* is missing, and returned the empty mapping
C18_Witness ==
  /\ call.op = "get_table_stats"
  /\ TableExists(store, "players")
  /\ \E t \in Tables : ~TableExists(store, t)
  /\ call.stats = NoRows

\* the four tables hold the seed rows and no other row
SeedCommitted(s) ==
  /\ \A t \in Tables : s[t].rows = Seeded[t].rows
  /\ RowCounts(s) = [t \in Tables |->
                       CASE t = "players" -> 15 [] t = "matches" -> 8
                         [] t = "series" -> 5 [] OTHER -> 10]

\* from s to s2 every table has kept its rows and gained its seed rows
SeedAdded(s, s2) ==
  \A t \in Tables :
    LET new == DOMAIN s2[t].rows \ DOMAIN s[t].rows
    IN /\ \A i \in DOMAIN s[t].rows : i \in DOMAIN s2[t].rows /\ s2[t].rows[i] = s[t].rows[i]
       /\ Cardinality(new) = (CASE t = "players" -> 15 [] t = "matches" -> 8
                                [] t = "series" -> 5 [] OTHER -> 10)
       /\ {s2[t].rows[i] : i \in new} = {Seeded[t].rows[i] : i \in DOMAIN Seeded[t].rows}

\* C19: when insert_sample_data runs on a store whose players table has no
\* rows, either the seed rows of all four tables are committed (15 players,
\* 8 matches, 5 series, 10 performances) or, a call having raised, none is:
\* no table has a row it had not before.  init_database runs it after its
\* CREATE TABLE statements, reset_database after its DROP TABLE statements.
C19_SeedAllOrNothing ==
  [][/\ (call'.op = "init_database" /\ RowCount(store, "players") = 0) =>
          \/ SeedAdded(store, store') /\ ~call'.raised
          \/ call'.raised /\ \A t \in Tables : store'[t].rows = store[t].rows
     /\ (call'.op = "reset_database") =>
          \/ SeedCommitted(store') /\ call'.b
          \/ ~call'.b /\ \A t \in Tables : DOMAIN store'[t].rows \subseteq DOMAIN store[t].rows]_vars

\* init_database ran on four tables without rows, an executemany or the
\* commit raised, and the four tables are there without rows
C19_Witness ==
  /\ call.op = "init_database" /\ call.raised
  /\ \A t \in Tables : TableExists(store, t)
  /\ StoreEmpty(store)
  /\ call.before = [t \in Tables |-> 0]

\* some but not all of the four tables exist
SomeTablesMissing(s) ==
  /\ \E t \in Tables : TableExists(s, t)
  /\ \E t \in Tables : ~TableExists(s, t)

\* C20: reset_database is not atomic.  A call in which a step raised returns
\* False and leaves each table as the steps before left it: as it was (not
\* yet dropped), missing (dropped), or created again without rows; so the
\* store can be left with some but not all of the four tables, or with
\* tables without seed rows.  Whenever the store is left so, the call
\* returned False.
C20_ResetNotAtomic ==
  [][(call'.op = "reset_database") =>
       /\ (SomeTablesMissing(store') \/ ~SeedCommitted(store')) => ~call'.b
       /\ ~call'.b =>
            \A t \in Tables : store'[t] \in {store[t], NoTable, EmptyTable}]_vars

\* reset_database has returned False and left the store without
\* player_performances and matches, with the rows of series and players
C20_Witness ==
  /\ call.op = "reset_database" /\ ~call.b
  /\ SomeTablesMissing(store)
  /\ ~TableExists(store, "matches")
  /\ RowCount(store, "players") = 15

----------------------------------------------------------------------------
(* Concurrency, connections and the integrity of the rows *)

\* the row holds, for every field of the field map, the value given
HoldsFieldMap(row, t, data) ==
  \A c \in DOMAIN data : row[c] = ApplyAffinity(Affinity(ColumnOf(t, c).decl), data[c])

\* both callers have made update_record on player 1 and are back
BothUpdated ==
  \A p \in Callers : sessions[p].op = "update_record" /\ sessions[p].pc = "idle"

\* C21: when two callers run update_record on the same row setting the same
\* fields, both calls complete (each returns 1 and has committed, or returns
\* 0 after its wait for the lock timed out and has written nothing), the row
\* holds the field map of the call that committed last, as a whole, and no
\* call is left waiting: a caller that finds the file locked has the other
\* caller about to commit.
C21_LastWriteWins ==
  /\ BothUpdated =>
       /\ \A p \in Callers :
            \/ sessions[p].n = 1 /\ sessions[p].order > 0 /\ ~sessions[p].raised
            \/ sessions[p].n = 0 /\ sessions[p].order = 0 /\ sessions[p].raised
       /\ \A p \in Callers :
            (sessions[p].order > sessions[Other(p)].order) =>
               HoldsFieldMap(store["players"].rows[1], "players", sessions[p].data)
       /\ \/ \E p \in Callers :
               HoldsFieldMap(store["players"].rows[1], "players", sessions[p].data)
          \/ store["players"].rows[1] = Seeded["players"].rows[1]
  /\ \A p \in Callers :
       (sessions[p].op = "update_record" /\ sessions[p].pc = "connected" /\ Busy(p))
          => ENABLED Commit(Other(p))

\* the two calls were under way at the same time, both have committed, and
\* the row holds the field map of the second to commit
C21_Witness ==
  /\ BothUpdated
  /\ \A p \in Callers : sessions[p].overlapped /\ sessions[p].n = 1
  /\ sessions[2].order < sessions[1].order
  /\ HoldsFieldMap(store["players"].rows[1], "players", RaceMaps[1])
  /\ ~HoldsFieldMap(store["players"].rows[1], "players", RaceMaps[2])

\* C22: every public operation closes the connection it opened before it
\* returns, on the success path and on every failure path: whatever call is
\* made in a state, no connection it opened is open when it is over.
C22_ConnectionsClosed ==
  \A trace \in OneUnitTraces(store) \cup InitTraces(store) \cup ResetTraces(store) :
     OpenAfter(trace, Len(trace)) = 0

\* C23 (as stated): each public operation, initialize() and reset()
\* included, opens exactly one connection and does its whole unit of work
\* on it.
C23_OneConnectionEach ==
  \A trace \in OneUnitTraces(store) \cup {InitDatabaseTrace(store, 0),
                                          ResetDatabaseTrace(store, 0)} :
     Opened(trace) <= 1

\* C23 (amended): each of execute_query, insert_record, update_record,
\* delete_record and get_table_stats opens one connection and does its
\* whole unit of work on it; initialize() opens two, one after the other
\* (the table creation, then the seeding), and reset() three (the four
\* drops, then the two of initialize()), fewer only when a call raises
\* before; no operation has two connections open at the same time.
C23_ConnectionsInTurn ==
  /\ \A trace \in OneUnitTraces(store) : Opened(trace) <= 1
  /\ Opened(ExecuteQueryTrace(store, MalformedQuery, 0)) = 1
  /\ Opened(GetTableStatsTrace(store, 0)) = 1
  /\ \A trace \in InitTraces(store) : Opened(trace) <= 2
  /\ \A trace \in ResetTraces(store) : Opened(trace) <= 3
  /\ Opened(InitDatabaseTrace(store, 0)) = 2
  /\ Opened(ResetDatabaseTrace(store, 0)) = 3
  /\ \A trace \in OneUnitTraces(store) \cup InitTraces(store) \cup ResetTraces(store) :
       \A k \in 0..Len(trace) : OpenAfter(trace, k) <= 1

\* reset_database has returned True on a store from which a player had been
\* deleted, having opened three connections and closed each before the next
C23_Witness ==
  /\ call.op = "reset_database" /\ call.b /\ call.before["players"] = 14
  /\ ResetDatabaseTrace(store, 0) = << "open", "close", "open", "close", "open", "close" >>

\* C24: in every state reached from the seeded store through initialize(),
\* reset() and delete_record, every player_performances row has a
\* player_id that is the id of a players row and a match_id that is the id
\* of a matches row.
C24_ReferentialIntegrity ==
  TableExists(store, "player_performances") =>
    \A i \in DOMAIN store["player_performances"].rows :
       LET row == store["player_performances"].rows[i]
       IN /\ TableExists(store, "players")
          /\ \E id \in DOMAIN store["players"].rows : row["player_id"] = IntVal(id)
          /\ TableExists(store, "matches")
          /\ \E id \in DOMAIN store["matches"].rows : row["match_id"] = IntVal(id)

\* C25: with initialize(), reset() and delete_record("players", id) as the
\* only operations, whenever the tables exist matches holds exactly 8 rows
\* and series exactly 5.
C25_SeedRowsOnce ==
  /\ TableExists(store, "matches") => RowCount(store, "matches") = 8
  /\ TableExists(store, "series") => RowCount(store, "series") = 5

\* C26: when two callers run initialize() at the same time on a store whose
\* players table is empty, the store ends with one set of seed rows: the
\* players table never holds more than the 15 seeded players.
C26_SeededOnce ==
  TableExists(store, "players") => RowCount(store, "players") <= Len(SamplePlayers)

\* C27: at every step of reset() and initialize(), the states between two
\* DROP or CREATE statements included, whenever the player_performances
\* table exists the players table and the matches table exist too.
C27_DependentsFirst ==
  TableExists(store, "player_performances") =>
    TableExists(store, "players") /\ TableExists(store, "matches")

\* reset_database has failed between two DROP statements: the
\* player_performances table is gone and players is still there
C27_Witness ==
  /\ call.op = "reset_database" /\ call.failed
  /\ ~TableExists(store, "player_performances")
  /\ ~TableExists(store, "matches")
  /\ TableExists(store, "players")

C29_DeleteAllOrNothing ==
  [][(call'.op = "delete_record" /\ call'.failed)
     => /\ call'.kind = "int" /\ call'.n = 0
        /\ store' = store]_vars

\* delete_record("players", 1) has failed and returned 0; player 1 and the
\* performances of player 1 are still in the store
C29_Witness ==
  /\ call.op = "delete_record" /\ call.table = "players" /\ call.id = 1
  /\ call.failed /\ call.n = 0
  /\ 1 \in DOMAIN store["players"].rows
  /\ \E i \in DOMAIN store["player_performances"].rows :
        store["player_performances"].rows[i]["player_id"] = IntVal(1)
  /\ DeleteRelated(store, "players", 1).n > 0

\* the ids of the rows of t this step removed
Removed(t) == DOMAIN store[t].rows \ DOMAIN store'[t].rows

\* the player_performances rows of this player
PerformancesOf(rid) ==
  {i \in DOMAIN store["player_performances"].rows :
     store["player_performances"].rows[i]["player_id"] = IntVal(rid)}

\* C30: delete_record("players", id) removes only the players row with
\* that id and the player_performances rows with player_id = id, and
\* delete_record("series", id) only the series row with that id; every
\* other row of the four tables is unchanged, and when no row has that id
\* the target table is unchanged and 0 is returned.
C30_DeleteFrame ==
  [][(call'.op = "delete_record" /\ call'.table \in {"players", "series"})
     => LET t == call'.table
            rid == call'.id
            related == IF t = "players" THEN PerformancesOf(rid) ELSE {}
        IN /\ \A u \in Tables : \A i \in DOMAIN store'[u].rows :
                i \in DOMAIN store[u].rows /\ store'[u].rows[i] = store[u].rows[i]
           /\ \A u \in Tables \ {t, "player_performances"} : Removed(u) = {}
           /\ Removed(t) \subseteq {rid}
           /\ Removed("player_performances") \subseteq related
           /\ ~call'.failed =>
                /\ Removed(t) = {rid} \cap DOMAIN store[t].rows
                /\ Removed("player_performances") = related
                /\ call'.n = Cardinality(Removed(t))
           /\ (~call'.failed /\ rid \notin DOMAIN store[t].rows) =>
                store'[t] = store[t] /\ call'.n = 0]_vars

\* delete_record("players", 1) has returned 1: the two performances of
\* player 1 are gone with it and the eight of the other players are there
C30_Witness ==
  /\ call.op = "delete_record" /\ call.table = "players" /\ call.id = 1
  /\ ~call.failed /\ call.n = 1
  /\ call.before["player_performances"] = 10
  /\ RowCount(store, "player_performances") = 8
  /\ RowCount(store, "players") = call.before["players"] - 1
  /\ RowCount(store, "matches") = 8

====
